---- MODULE Spec2Model ----
(***************************************************************************)
(* Model of the CI/CD deployment registry (CICDIntegrationManager) and of  *)
(* the three views of ProvisioningModuleEnhanced that drive it             *)
(* (src/modules_resource_inventory.py), specification Spec; of the result  *)
(* cache PerformanceOptimizer (src/modules_provisioning.py), specification *)
(* SpecCache; and of the region-bound Operations and Provisioning views    *)
(* inside a run of the application, specification SpecViews.               *)
(*                                                                         *)
(* Text is a sequence of tokens: "sp" is a whitespace character, "x" an    *)
(* ordinary character, and for JSON text "s" is a scalar literal and       *)
(* "{" "}" "[" "]" ":" are the punctuation characters.  Timestamps are     *)
(* minutes counted from the clock reading (now) of the call that builds    *)
(* the list.  An Optional value is a sequence of length 0 (None) or 1.     *)
(***************************************************************************)
EXTENDS Integers, Sequences, FiniteSets, TLC

VARIABLES
    provider,        \* CICDIntegrationManager.provider
    api_token,       \* CICDIntegrationManager.api_token (None = <<>>)
    reject_reason,   \* ids p with st.session_state["reject_reason_<p>"] true
    show_reject,     \* ids p with st.session_state["show_reject_<p>"] true
    lastCall,        \* the latest step: the manager call it made (op "none" if
                     \* it made none), the result, and what it told the user
    streak,          \* length of the current run of successful approvals of one id
    triggerCount,    \* number of trigger_pipeline calls made
    returnedIds,     \* pipeline ids returned by those calls
    session_state,   \* st.session_state of each session: key -> Optional value
    cache_data,      \* the store of st.cache_data: function -> Optional entry
    clock,           \* seconds since the process started
    runs,            \* number of runs of loader bodies that returned
    lastRead,        \* the latest result cache step and what it did
    refreshed,       \* per session: the kind of its latest refresh, and the
                     \* load_once keys that refresh was to clear and that no
                     \* load_once has read since
    selected_regions, \* st.session_state['selected_regions'] (None = not set)
    active_module,   \* st.session_state.active_module
    lastRun,         \* the latest run of main() and what it showed
    session_cache,   \* the account manager's handles: (account, region) -> Optional
    handles_built,   \* number of session handles built so far
    issued,          \* per (account, region): the handle its latest call returned
                     \* and whether the pair was invalidated since
    lastResolve,     \* the latest account manager step and what it returned
    confirm_bulk_operation, \* st.session_state.confirm_bulk_operation (None = not set)
    operation,       \* the "Select Operation" selectbox
    safety_mode,     \* the "Require Confirmation" checkbox
    state_filter,    \* the "State" filter selectbox (key state_filter)
    instances,       \* what describe_instances returns: instance id -> state
    offered,         \* the buttons the latest run of Instance Management drew
    confirmed,       \* the operation and instances on screen when
                     \* "Confirm & Execute" was last pressed
    lastBulk,        \* the latest run of Instance Management and what it reported
    lastNav          \* the latest navigation step: the button pressed in it,
                     \* the active module before it, and its runs of the dispatch

cicdVars == <<provider, api_token, reject_reason, show_reject, lastCall, streak,
              triggerCount, returnedIds>>
cacheVars == <<session_state, cache_data, clock, runs, lastRead, refreshed>>
viewVars == <<selected_regions, active_module, lastRun>>
sessionVars == <<session_cache, handles_built, issued, lastResolve>>
bulkVars == <<confirm_bulk_operation, operation, safety_mode, state_filter, instances,
              offered, confirmed, lastBulk>>
opsVars == <<sessionVars, bulkVars, lastNav>>
vars == <<cicdVars, cacheVars, viewVars, opsVars>>

----------------------------------------------------------------------------
(* Bounds *)

MaxTriggers == 2
MaxStreak == 2

----------------------------------------------------------------------------
(* Optional values *)

None == <<>>
Some(v) == <<v>>

----------------------------------------------------------------------------
(* Inputs *)

Providers == {"github", "gitlab", "jenkins", "codepipeline"}
SecretValues == {None, Some("tok")}
ParamTexts ==
    { <<"sp">>,
      <<"sp", "{", "sp", "}">>, <<"{", "s", ":", "[", "s", "]", "}">>,
      <<"[", "s", "]", "sp">>, <<"s">>,
      <<"{", "s", "}">> }
ReasonTexts == {<<>>, <<"sp">>, <<"x">>}
Repositories == {<<>>, <<"x">>}
Branches == {"main"}
Environments == {"dev", "staging", "production"}
EnvFilters == {Environments, {"staging", "dev"}}
Statuses == {"running", "success", "failed", "pending_approval"}
StatusFilters == {{"running", "success", "pending_approval"}, {"success"}}
PipelineIdInputs == {"GHA-1234", "GHA-1235", "GHA-1231", "GHA-1230", "GHA-9999"}

----------------------------------------------------------------------------
(* Python str.strip() *)

RECURSIVE lstrip(_)
lstrip(t) == IF t # <<>> /\ Head(t) = "sp" THEN lstrip(Tail(t)) ELSE t

RECURSIVE rstrip(_)
rstrip(t) == IF t # <<>> /\ t[Len(t)] = "sp" THEN rstrip(SubSeq(t, 1, Len(t) - 1)) ELSE t

strip(t) == rstrip(lstrip(t))

----------------------------------------------------------------------------
(* json.loads on token text: the kind of the parsed value, or the error *)

RECURSIVE SkipWs(_, _)
SkipWs(t, i) == IF i <= Len(t) /\ t[i] = "sp" THEN SkipWs(t, i + 1) ELSE i

ParseFail == [ok |-> FALSE, next |-> 0, kind |-> "JSONDecodeError"]

At(t, i, c) == i <= Len(t) /\ t[i] = c

RECURSIVE ParseValue(_, _)
ParseValue(t, i) ==
    IF i > Len(t) THEN ParseFail
    ELSE IF t[i] = "s" THEN [ok |-> TRUE, next |-> i + 1, kind |-> "scalar"]
    ELSE IF t[i] = "{" THEN
        LET j == SkipWs(t, i + 1) IN
        IF At(t, j, "}") THEN [ok |-> TRUE, next |-> j + 1, kind |-> "dict"]
        ELSE IF At(t, j, "s") /\ At(t, SkipWs(t, j + 1), ":") THEN
            LET v == ParseValue(t, SkipWs(t, SkipWs(t, j + 1) + 1))
                m == SkipWs(t, v.next)
            IN  IF v.ok /\ At(t, m, "}")
                THEN [ok |-> TRUE, next |-> m + 1, kind |-> "dict"]
                ELSE ParseFail
        ELSE ParseFail
    ELSE IF t[i] = "[" THEN
        LET j == SkipWs(t, i + 1) IN
        IF At(t, j, "]") THEN [ok |-> TRUE, next |-> j + 1, kind |-> "list"]
        ELSE LET v == ParseValue(t, j)
                 m == SkipWs(t, v.next)
             IN  IF v.ok /\ At(t, m, "]")
                 THEN [ok |-> TRUE, next |-> m + 1, kind |-> "list"]
                 ELSE ParseFail
    ELSE ParseFail

json_loads(t) ==
    LET v == ParseValue(t, SkipWs(t, 1)) IN
    IF v.ok /\ SkipWs(t, v.next) > Len(t) THEN v.kind ELSE "JSONDecodeError"

----------------------------------------------------------------------------
(* CICDIntegrationManager *)

_get_api_token(p, secrets) ==
    IF p = "github" THEN secrets
    ELSE IF p = "gitlab" THEN secrets
    ELSE IF p = "jenkins" THEN secrets
    ELSE None

CICDDeployment(id, st, env, stack, commit, trig, comp, appr) ==
    [pipeline_id |-> id, status |-> st, environment |-> env, stack_name |-> stack,
     commit_hash |-> commit, triggered_at |-> trig, completed_at |-> comp,
     approval_required |-> appr]

now == 0

_get_demo_deployments ==
    << CICDDeployment("GHA-1234", "success", "production", "prod-vpc-stack",
                      "abc1234", now - 120, Some(now - 105), FALSE),
       CICDDeployment("GHA-1235", "pending_approval", "production", "prod-rds-stack",
                      "def5678", now - 30, None, TRUE),
       CICDDeployment("GHA-1233", "success", "staging", "staging-app-stack",
                      "def5678", now - 45, Some(now - 35), FALSE),
       CICDDeployment("GHA-1232", "success", "dev", "dev-test-stack",
                      "def5678", now - 60, Some(now - 50), FALSE),
       CICDDeployment("GHA-1231", "failed", "dev", "dev-failed-stack",
                      "ghi9012", now - 180, Some(now - 175), FALSE),
       CICDDeployment("GHA-1230", "running", "staging", "staging-update-stack",
                      "jkl3456", now - 10, None, FALSE) >>

_get_github_deployments(limit) == _get_demo_deployments

_get_gitlab_deployments(limit) == _get_demo_deployments

\* A registry in which a successful approve moves the record to running
\* whatever its status was.
get_recent_deployments_approve_applied(limit) ==
    LET ds == _get_demo_deployments IN
    [i \in 1..Len(ds) |->
        IF lastCall.op = "approve" /\ lastCall.success
           /\ ds[i].pipeline_id = lastCall.pipeline_id
        THEN [ds[i] EXCEPT !.status = "running"]
        ELSE ds[i]]

\* A registry that lists a record for every pipeline that was triggered.
get_recent_deployments_trigger_recorded(limit) ==
    IF triggerCount = 0 THEN _get_demo_deployments
    ELSE <<CICDDeployment("GHA-9999", "running", "dev", "triggered-stack",
                          "new0000", now, None, FALSE)>> \o _get_demo_deployments

get_recent_deployments(limit) ==
    IF api_token = None THEN _get_demo_deployments
    ELSE IF provider = "github" THEN _get_github_deployments(limit)
    ELSE IF provider = "gitlab" THEN _get_gitlab_deployments(limit)
    ELSE _get_demo_deployments

approve_deployment(pipeline_id) ==
    [success |-> TRUE, message |-> <<"approved", pipeline_id>>]

reject_deployment(pipeline_id, reason) ==
    [success |-> TRUE, message |-> <<"rejected", pipeline_id, reason>>]

trigger_pipeline(repo, branch, environment, parameters) ==
    [success |-> TRUE, pipeline_id |-> "GHA-9999", pipeline_url |-> <<repo, "9999">>]

----------------------------------------------------------------------------
(* The record kept of a step *)

NoCall ==
    [op |-> "none", pipeline_id |-> "", reason |-> <<>>, environment |-> "",
     require_approval |-> FALSE, parameters |-> "None", success |-> FALSE,
     result_id |-> "", message |-> ""]

Told(message) == [NoCall EXCEPT !.message = message]

ApproveCall(pipeline_id, result, message) ==
    [NoCall EXCEPT !.op = "approve", !.pipeline_id = pipeline_id,
                   !.success = result.success, !.message = message]

RejectCall(pipeline_id, reason, result, message) ==
    [NoCall EXCEPT !.op = "reject", !.pipeline_id = pipeline_id, !.reason = reason,
                   !.success = result.success, !.message = message]

TriggerCall(environment, require_approval, params, result, message) ==
    [NoCall EXCEPT !.op = "trigger", !.environment = environment,
                   !.require_approval = require_approval, !.parameters = params,
                   !.success = result.success, !.result_id = result.pipeline_id,
                   !.message = message]

NextStreak(pipeline_id, result) ==
    IF ~result.success THEN 0
    ELSE IF lastCall.op = "approve" /\ lastCall.pipeline_id = pipeline_id
            /\ lastCall.success
         THEN IF streak < MaxStreak THEN streak + 1 ELSE streak
    ELSE 1

----------------------------------------------------------------------------
(* PerformanceOptimizer (src/modules_provisioning.py): the result cache.    *)
(*                                                                         *)
(* A session-state key is the pair <<prefix, rest>> of the key text.  The   *)
(* value a run of a loader's body returns is the record of that run: the   *)
(* function, the session the run was made for, and the clock reading.      *)

ttl == 300
MaxClock == 300
MaxRuns == 2

Sessions == {"A", "B"}
Functions == {"generate_comprehensive_inventory", "generate_resource_analytics"}
LoadOnceKeys == {<<"resource_", "analytics">>, <<"", "summary">>}
Outcomes == {"return", "raise"}

cache_key(func) == <<"cache_", func>>
SessionKeys == LoadOnceKeys \cup {cache_key(func) : func \in Functions}
startswith(key, prefix) == key[1] = prefix
In(key, state) == state[key] # None

NoValue == [func |-> "", session |-> "", at |-> 0]

\* cached_func(): the function wrapped by st.cache_data(ttl=ttl), called at
\* clock reading t for session s; outcome is what the body does if it runs.
\* st.cache_data keeps one store for the whole process.
cached_func(func, cache, t, s, outcome) ==
    IF cache[func] # None /\ t - cache[func][1].created_at < ttl
    THEN [ran |-> FALSE, raised |-> FALSE, result |-> cache[func][1].value,
          cache |-> cache]
    ELSE IF outcome = "raise"
    THEN [ran |-> TRUE, raised |-> TRUE, result |-> NoValue, cache |-> cache]
    ELSE LET value == [func |-> func, session |-> s, at |-> t] IN
         [ran |-> TRUE, raised |-> FALSE, result |-> value,
          cache |-> [cache EXCEPT ![func] = Some([value |-> value, created_at |-> t])]]

\* The spinner flag is set before the wrapped function is called.
wrapper_flag_first(func, state, cache, t, s, outcome) ==
    LET r == cached_func(func, cache, t, s, outcome) IN
    [ran |-> r.ran, raised |-> r.raised, result |-> r.result, cache |-> r.cache,
     state |-> [state EXCEPT ![cache_key(func)] = Some(TRUE)]]

\* wrapper(): the function cache_with_spinner returns
wrapper(func, state, cache, t, s, outcome) ==
    LET r == cached_func(func, cache, t, s, outcome) IN
    [ran |-> r.ran, raised |-> r.raised, result |-> r.result, cache |-> r.cache,
     state |-> IF ~In(cache_key(func), state) /\ ~r.raised
               THEN [state EXCEPT ![cache_key(func)] = Some(TRUE)]
               ELSE state]

\* A load_once that calls the loader whether or not the key is stored.
load_once_always(key, func, state, cache, t, s, outcome) ==
    LET r == wrapper(func, state, cache, t, s, outcome) IN
    [called |-> TRUE, ran |-> r.ran, raised |-> r.raised, result |-> r.result,
     cache |-> r.cache,
     state |-> IF r.raised THEN r.state
               ELSE [r.state EXCEPT ![key] = Some(r.result)]]

\* load_once(key, loader_func) with the wrapper of func as loader_func
load_once(key, func, state, cache, t, s, outcome) ==
    IF ~In(key, state)
    THEN LET r == wrapper(func, state, cache, t, s, outcome) IN
         [called |-> TRUE, ran |-> r.ran, raised |-> r.raised, result |-> r.result,
          cache |-> r.cache,
          state |-> IF r.raised THEN r.state
                    ELSE [r.state EXCEPT ![key] = Some(r.result)]]
    ELSE [called |-> FALSE, ran |-> FALSE, raised |-> FALSE,
          result |-> state[key][1], cache |-> cache, state |-> state]

\* A refresh that drops every session key, listed or not.
add_refresh_button_drop_all(cache_keys, state, cache) ==
    [raised |-> FALSE,
     state |-> [key \in SessionKeys |-> None],
     cache |-> [func \in Functions |-> None]]

\* add_refresh_button(cache_keys) when "Refresh Data" is pressed; a call with
\* no key list has cache_keys = {}.
add_refresh_button(cache_keys, state, cache) ==
    IF cache_keys # {}
    THEN [raised |-> FALSE,
          state |-> [key \in SessionKeys |->
                        IF key \in cache_keys /\ In(key, state) THEN None
                        ELSE state[key]],
          cache |-> [func \in Functions |-> None]]
    ELSE [raised |-> FALSE,
          state |-> [key \in SessionKeys |->
                        IF startswith(key, "cache_") \/ startswith(key, "resource_")
                        THEN None ELSE state[key]],
          cache |-> [func \in Functions |-> None]]

\* The record kept of a cache step
NoRead ==
    [op |-> "none", session |-> "", key |-> <<"", "">>, func |-> "",
     cache_keys |-> {}, called |-> FALSE, ran |-> FALSE, raised |-> FALSE,
     result |-> NoValue]

NotRefreshed == [kind |-> "none", keys |-> {}]

----------------------------------------------------------------------------
(* The region-bound views: OperationsModule.render                         *)
(* (src/modules_operations.py), ProvisioningModuleEnhanced.render          *)
(* (src/modules_resource_inventory.py), and the run of the application     *)
(* that shows them (src/components_navigation.py, src/streamlit_app.py).   *)
(*                                                                         *)
(* A render is given the collaborators' answers of that run: whether an    *)
(* account manager is configured, the account names, and what              *)
(* get_session_with_region does (returns a session, returns None, raises). *)

Modules == {"Dashboard", "Resource Inventory", "Operations", "Provisioning"}
Regions == {"all", "us-east-1", "eu-west-1"}
AccountNames == {<<>>, <<"prod", "dev">>}
Resolutions == {"session", "None", "raise"}

\* What a render did: the st.error and st.warning texts, whether the tabs were
\* created, the (account, region) pairs passed to get_session_with_region,
\* and whether an exception left it.
Rendered ==
    [errors |-> {}, warnings |-> {}, tabs |-> FALSE, calls |-> {}, raised |-> FALSE]

\* A reading of the region that substitutes a region when none was selected.
get_selected_regions_default(selected) ==
    IF selected = None THEN "us-east-1" ELSE selected[1]

\* st.session_state.get('selected_regions', 'all')
get_selected_regions(selected) ==
    IF selected = None THEN "all" ELSE selected[1]

OperationsModule_render(account_mgr, account_names, selected, resolution) ==
    IF ~account_mgr
    THEN [Rendered EXCEPT !.warnings = {"Configure AWS credentials first"}]
    ELSE IF account_names = <<>>
    THEN [Rendered EXCEPT !.warnings = {"No AWS accounts configured"}]
    ELSE LET selected_account == account_names[1]
             selected_region == get_selected_regions(selected)
             called == [Rendered EXCEPT !.calls = {<<selected_account, selected_region>>}]
         IN  IF selected_region = "all"
             THEN [Rendered EXCEPT !.errors = {"Operations require a specific region"}]
             ELSE IF resolution = "raise" THEN [called EXCEPT !.raised = TRUE]
             ELSE IF resolution = "None"
             THEN [called EXCEPT !.errors = {"Failed to get session"}]
             ELSE [called EXCEPT !.tabs = TRUE]

ProvisioningModuleEnhanced_render(account_mgr, account_names, selected, resolution) ==
    IF ~account_mgr
    THEN [Rendered EXCEPT !.warnings = {"Configure AWS credentials first"}]
    ELSE IF account_names = <<>>
    THEN [Rendered EXCEPT !.warnings = {"No AWS accounts configured"}]
    ELSE LET selected_account == account_names[1]
             selected_region == get_selected_regions(selected)
             called == [Rendered EXCEPT !.calls = {<<selected_account, selected_region>>}]
         IN  IF selected_region = "all"
             THEN [Rendered EXCEPT !.errors =
                      {"Error loading Provisioning: You must specify a region."}]
             ELSE IF resolution = "raise" THEN [called EXCEPT !.raised = TRUE]
             ELSE IF resolution = "None"
             THEN [called EXCEPT !.errors = {"Failed to get session"}]
             ELSE [called EXCEPT !.tabs = TRUE]

\* The module branch of Navigation.render: import the module's class and call
\* its render.  imported is whether the import statement of the branch
\* succeeds; an import that fails raises.
ModuleRender(active, imported, account_mgr, account_names, selected, resolution) ==
    IF ~imported THEN [Rendered EXCEPT !.raised = TRUE]
    ELSE IF active = "Operations"
    THEN OperationsModule_render(account_mgr, account_names, selected, resolution)
    ELSE IF active = "Provisioning"
    THEN ProvisioningModuleEnhanced_render(account_mgr, account_names, selected,
                                           resolution)
    ELSE Rendered

\* A Navigation.render whose branches have no try/except.
Navigation_render_uncaught(active, imported, account_mgr, account_names, selected, resolution) ==
    ModuleRender(active, imported, account_mgr, account_names, selected, resolution)

\* An except clause that shows nothing.
except_Exception_pass(active, r) ==
    [r EXCEPT !.raised = FALSE]

\* The except clause of the active module's branch, applied to what the try
\* block did: except Exception as e: st.error(f"Error loading ...: {str(e)}")
except_Exception(active, r) ==
    IF r.raised
    THEN [r EXCEPT !.raised = FALSE, !.errors = @ \cup {"Error loading " \o active}]
    ELSE r

\* Navigation.render: the try/except around the active module's branch
Navigation_render(active, imported, account_mgr, account_names, selected, resolution) ==
    except_Exception(active,
        ModuleRender(active, imported, account_mgr, account_names, selected,
                     resolution))

\* main(): Navigation.render(), then the footer
main(active, imported, account_mgr, account_names, selected, resolution) ==
    LET r == Navigation_render(active, imported, account_mgr, account_names,
                               selected, resolution)
    IN  [module |-> active, selected |-> selected,
         account_mgr |-> account_mgr, account_names |-> account_names,
         imported |-> imported,
         resolution |-> IF r.calls = {} THEN "none" ELSE resolution,
         module_raised |-> ModuleRender(active, imported, account_mgr, account_names,
                                        selected, resolution).raised,
         errors |-> r.errors, warnings |-> r.warnings, tabs |-> r.tabs,
         calls |-> r.calls, uncaught |-> r.raised, footer |-> ~r.raised]

\* ResourceInventoryModule.render in session s, up to the first load of its
\* Dashboard tab; state and cache are the session state and the st.cache_data
\* store it leaves.
ResourceInventoryModule_render(account_mgr, state, cache, t, s, outcome) ==
    IF ~account_mgr
    THEN [errors |-> {}, warnings |-> {"Configure AWS credentials first"},
          tabs |-> FALSE, calls |-> {}, called |-> FALSE, ran |-> FALSE,
          raised |-> FALSE, result |-> NoValue, state |-> state, cache |-> cache]
    ELSE LET l == load_once(<<"resource_", "analytics">>, "generate_resource_analytics",
                            state, cache, t, s, outcome)
         IN  [errors |-> {}, warnings |-> {}, tabs |-> TRUE, calls |-> {},
              called |-> l.called, ran |-> l.ran, raised |-> l.raised,
              result |-> l.result, state |-> l.state, cache |-> l.cache]

NoRun ==
    [module |-> "", selected |-> None, account_mgr |-> FALSE, account_names |-> <<>>,
     imported |-> FALSE, resolution |-> "none", module_raised |-> FALSE,
     errors |-> {}, warnings |-> {},
     tabs |-> FALSE, calls |-> {}, uncaught |-> FALSE, footer |-> FALSE]

----------------------------------------------------------------------------
(* The account manager's session cache (core_account_manager), which the   *)
(* views reach through account_mgr.get_session_with_region                 *)

MaxHandles == 3
Accounts == {"prod", "dev"}
ConcreteRegions == Regions \ {"all"}
SessionCacheKeys == Accounts \X ConcreteRegions
BuildOutcomes == {"built", "CredentialError"}

\* A session handle: an authenticated client bound to one (account, region).
\* The serial number tells two handles built for the same pair apart.
SessionHandle(account, region, serial) ==
    [account |-> account, region |-> region, serial |-> serial]

\* A resolution that authenticates again on every call.
get_session_with_region_rebuild(account, region, cache, built, outcome) ==
    IF outcome = "CredentialError"
    THEN [raised |-> TRUE, handle |-> None, cache |-> cache, built |-> built]
    ELSE LET handle == SessionHandle(account, region, built + 1) IN
         [raised |-> FALSE, handle |-> Some(handle),
          cache |-> [cache EXCEPT ![<<account, region>>] = Some(handle)],
          built |-> built + 1]

\* resolve(account_id, region): the cached handle on a hit; on a miss a new
\* handle is built from the account's credentials, stored and returned, or
\* the credential resolution fails and nothing is stored.
get_session_with_region(account, region, cache, built, outcome) ==
    IF cache[<<account, region>>] # None
    THEN [raised |-> FALSE, handle |-> cache[<<account, region>>],
          cache |-> cache, built |-> built]
    ELSE IF outcome = "CredentialError"
    THEN [raised |-> TRUE, handle |-> None, cache |-> cache, built |-> built]
    ELSE LET handle == SessionHandle(account, region, built + 1) IN
         [raised |-> FALSE, handle |-> Some(handle),
          cache |-> [cache EXCEPT ![<<account, region>>] = Some(handle)],
          built |-> built + 1]

\* invalidate(account_id, region=None): removes the cached handle of the
\* pair, or of every region of the account when region is None.
invalidate(account, region, cache) ==
    [key \in SessionCacheKeys |->
        IF key[1] = account /\ (region = None \/ key[2] = region[1])
        THEN None ELSE cache[key]]

NeverIssued == [handle |-> None, invalidated |-> FALSE]

NoResolve ==
    [op |-> "none", account |-> "", region |-> None, raised |-> FALSE,
     handle |-> None, was_invalidated |-> FALSE]

----------------------------------------------------------------------------
(* Instance Management: filters and bulk operations with confirmation      *)

BulkOperations == {"Stop Instances", "Start Instances"}
StateFilters == {"All", "running", "stopped"}
InstanceIds == {"i-1", "i-2"}
InstanceStates == {"running", "stopped"}
Ec2Responses == {"instances", "empty", "raise"}
Buttons == {"Confirm & Execute", "Yes", "No", "Execute"}

\* st.session_state.get('confirm_bulk_operation', False)
get_confirm_bulk_operation(flag) == IF flag = None THEN FALSE ELSE flag[1]

\* The filters applied to the instances (only the State filter is kept).
filtered_instances(insts, selected_state) ==
    {i \in InstanceIds : selected_state = "All" \/ insts[i] = selected_state}

\* A run that drew no bulk operation section.
NoBulkSection(flag, error) ==
    [flag |-> flag, offered |-> {}, pressed |-> "none", executed |-> None,
     cancelled |-> FALSE, rerun |-> FALSE, error |-> error]

\* A confirmation dialog whose "No" leaves the flag set.
_render_instance_management_no_keeps(flag, op, safety, selected_state, insts, clicked, ec2) ==
    LET filtered == filtered_instances(insts, selected_state)
        flag1 == IF clicked = "Confirm & Execute"
                 THEN Some(TRUE) ELSE flag
        asking == get_confirm_bulk_operation(flag1) IN
    IF ec2 = "raise" THEN NoBulkSection(flag, TRUE)
    ELSE IF ec2 = "empty" \/ filtered = {} THEN NoBulkSection(flag, FALSE)
    ELSE IF safety
    THEN IF asking /\ clicked = "Yes"
         THEN [flag |-> Some(FALSE), offered |-> {"Confirm & Execute", "Yes"},
               pressed |-> "Yes",
               executed |-> Some([operation |-> op, instances |-> filtered]),
               cancelled |-> FALSE, rerun |-> TRUE, error |-> FALSE]
         ELSE IF asking /\ clicked = "No"
         THEN [flag |-> flag1, offered |-> {"Confirm & Execute", "Yes", "No"},
               pressed |-> "No", executed |-> None,
               cancelled |-> TRUE, rerun |-> TRUE, error |-> FALSE]
         ELSE [flag |-> flag1,
               offered |-> {"Confirm & Execute"}
                           \cup (IF asking THEN {"Yes", "No"} ELSE {}),
               pressed |-> IF clicked = "Confirm & Execute" THEN clicked ELSE "none",
               executed |-> None,
               cancelled |-> FALSE, rerun |-> FALSE, error |-> FALSE]
    ELSE [flag |-> flag, offered |-> {"Execute"},
          pressed |-> IF clicked = "Execute" THEN clicked ELSE "none",
          executed |-> IF clicked = "Execute"
                       THEN Some([operation |-> op, instances |-> filtered])
                       ELSE None,
          cancelled |-> FALSE, rerun |-> FALSE, error |-> FALSE]

\* One run of _render_instance_management.  clicked is the button the user
\* clicked before the run ("none" if none); pressed is the button whose
\* st.button call returned True in the run, which needs the button to be
\* drawn in this run.  st.rerun() ends the run where it is called, so the
\* "No" button is not drawn in a run where "Yes" was pressed.
_render_instance_management(flag, op, safety, selected_state, insts, clicked, ec2) ==
    LET filtered == filtered_instances(insts, selected_state)
        flag1 == IF clicked = "Confirm & Execute"
                 THEN Some(TRUE) ELSE flag
        asking == get_confirm_bulk_operation(flag1) IN
    IF ec2 = "raise" THEN NoBulkSection(flag, TRUE)
    ELSE IF ec2 = "empty" \/ filtered = {} THEN NoBulkSection(flag, FALSE)
    ELSE IF safety
    THEN IF asking /\ clicked = "Yes"
         THEN [flag |-> Some(FALSE), offered |-> {"Confirm & Execute", "Yes"},
               pressed |-> "Yes",
               executed |-> Some([operation |-> op, instances |-> filtered]),
               cancelled |-> FALSE, rerun |-> TRUE, error |-> FALSE]
         ELSE IF asking /\ clicked = "No"
         THEN [flag |-> Some(FALSE), offered |-> {"Confirm & Execute", "Yes", "No"},
               pressed |-> "No", executed |-> None,
               cancelled |-> TRUE, rerun |-> TRUE, error |-> FALSE]
         ELSE [flag |-> flag1,
               offered |-> {"Confirm & Execute"}
                           \cup (IF asking THEN {"Yes", "No"} ELSE {}),
               pressed |-> IF clicked = "Confirm & Execute" THEN clicked ELSE "none",
               executed |-> None,
               cancelled |-> FALSE, rerun |-> FALSE, error |-> FALSE]
    ELSE [flag |-> flag, offered |-> {"Execute"},
          pressed |-> IF clicked = "Execute" THEN clicked ELSE "none",
          executed |-> IF clicked = "Execute"
                       THEN Some([operation |-> op, instances |-> filtered])
                       ELSE None,
          cancelled |-> FALSE, rerun |-> FALSE, error |-> FALSE]

NoBulk ==
    [clicked |-> "none", pressed |-> "none", safety_mode |-> TRUE,
     flag_before |-> None, executed |-> None, cancelled |-> FALSE,
     confirmed |-> None, error |-> FALSE]

----------------------------------------------------------------------------
(* Navigation.render: the sixteen navigation buttons and the dispatch       *)

nav_items ==
    << [key |-> "Dashboard", label |-> "Dashboard"],
       [key |-> "Account Management", label |-> "Account Mgmt"],
       [key |-> "Resource Inventory", label |-> "Resources"],
       [key |-> "Network (VPC)", label |-> "Network"],
       [key |-> "Organizations", label |-> "Organizations"],
       [key |-> "Design & Planning", label |-> "Design"],
       [key |-> "Provisioning", label |-> "Provisioning"],
       [key |-> "CI/CD", label |-> "CI/CD"],
       [key |-> "Operations", label |-> "Operations"],
       [key |-> "Advanced Operations", label |-> "Advanced Ops"],
       [key |-> "Security", label |-> "Security & AI"],
       [key |-> "EKS Management", label |-> "EKS"],
       [key |-> "FinOps & Cost", label |-> "FinOps"],
       [key |-> "Account Lifecycle", label |-> "Lifecycle"],
       [key |-> "Developer Experience", label |-> "DevEx"],
       [key |-> "AI Assistant", label |-> "AI Assistant"] >>

NavKeys == {nav_items[i].key : i \in 1..Len(nav_items)}

\* A button that stores the text it shows.
nav_button_label(item) == item.label

\* What a pressed navigation button assigns to st.session_state.active_module.
nav_button(item) == item.key

\* The if/elif chain of the dispatch: the literal each branch compares
\* active_module with, and the class whose render the branch calls.
branches ==
    << [key |-> "Dashboard", class |-> "DashboardModule"],
       [key |-> "Account Management", class |-> "AccountManagementModule"],
       [key |-> "Resource Inventory", class |-> "ResourceInventoryModule"],
       [key |-> "Network (VPC)", class |-> "NetworkManagementUI"],
       [key |-> "Organizations", class |-> "OrganizationsManagementUI"],
       [key |-> "Design & Planning", class |-> "DesignPlanningModule"],
       [key |-> "Provisioning", class |-> "ProvisioningModule"],
       [key |-> "CI/CD", class |-> "UnifiedCICDModule"],
       [key |-> "Operations", class |-> "OperationsModule"],
       [key |-> "Advanced Operations", class |-> "AdvancedOperationsModule"],
       [key |-> "Security", class |-> "UnifiedSecurityComplianceModule"],
       [key |-> "EKS Management", class |-> "EKSManagementModule"],
       [key |-> "FinOps & Cost", class |-> "FinOpsModule"],
       [key |-> "Account Lifecycle", class |-> "AccountLifecycleModule"],
       [key |-> "Developer Experience", class |-> "DevExModule"],
       [key |-> "AI Assistant", class |-> "AIAssistantModule"] >>

\* The branch the chain takes for active: the first whose literal equals it.
dispatch(active) ==
    LET matches == {i \in 1..Len(branches) : branches[i].key = active} IN
    IF matches = {} THEN {}
    ELSE {branches[CHOOSE i \in matches : \A j \in matches : i <= j]}

\* The dispatch of one run: the classes whose render it invoked.  A branch
\* whose import fails shows its error and invokes no render.
dispatch_run(active, imported) ==
    [active |-> active,
     rendered |-> IF imported THEN {b.class : b \in dispatch(active)} ELSE {},
     errors |-> IF imported THEN {}
                ELSE {"Error loading " \o b.key : b \in dispatch(active)}]

\* A run that a pressed button ended with st.rerun() before the dispatch.
rerun_before_dispatch(active) == [active |-> active, rendered |-> {}, errors |-> {}]

NoNav == [pressed |-> None, before |-> "", runs |-> <<>>]

----------------------------------------------------------------------------
(* Initial state: a manager constructed for a provider, nothing pressed yet *)

Init ==
    /\ provider \in Providers
    /\ \E secrets \in SecretValues : api_token = _get_api_token(provider, secrets)
    /\ reject_reason = {}
    /\ show_reject = {}
    /\ lastCall = NoCall
    /\ streak = 0
    /\ triggerCount = 0
    /\ returnedIds = {}
    /\ session_state = [s \in Sessions |-> [key \in SessionKeys |-> None]]
    /\ cache_data = [func \in Functions |-> None]
    /\ clock = 0
    /\ runs = 0
    /\ lastRead = NoRead
    /\ refreshed = [s \in Sessions |-> NotRefreshed]
    /\ selected_regions = None
    /\ active_module = "Dashboard"
    /\ lastRun = NoRun
    /\ session_cache = [key \in SessionCacheKeys |-> None]
    /\ handles_built = 0
    /\ issued = [key \in SessionCacheKeys |-> NeverIssued]
    /\ lastResolve = NoResolve
    /\ confirm_bulk_operation = None
    /\ operation = "Stop Instances"
    /\ safety_mode = TRUE
    /\ state_filter = "All"
    /\ instances = [i \in InstanceIds |-> IF i = "i-1" THEN "running" ELSE "stopped"]
    /\ offered = {}
    /\ confirmed = None
    /\ lastBulk = NoBulk
    /\ lastNav = NoNav

----------------------------------------------------------------------------
(* Manager operations called directly *)

ApproveDeployment(pipeline_id) ==
    LET result == approve_deployment(pipeline_id) IN
    /\ lastCall' = ApproveCall(pipeline_id, result, "")
    /\ streak' = NextStreak(pipeline_id, result)
    /\ UNCHANGED <<cacheVars, viewVars, opsVars, provider, api_token, reject_reason, show_reject,
                   triggerCount, returnedIds>>

RejectDeployment(pipeline_id, reason) ==
    LET result == reject_deployment(pipeline_id, reason) IN
    /\ lastCall' = RejectCall(pipeline_id, reason, result, "")
    /\ streak' = 0
    /\ UNCHANGED <<cacheVars, viewVars, opsVars, provider, api_token, reject_reason, show_reject,
                   triggerCount, returnedIds>>

----------------------------------------------------------------------------
(* CI/CD Deployments view *)

Filtered(deployments, env_filter, status_filter) ==
    LET Shown(d) == d.environment \in env_filter /\ d.status \in status_filter
    IN  SelectSeq(deployments, Shown)

ApprovalShown(d) == d.approval_required /\ d.status = "pending_approval"

CicdApprove(env_filter, status_filter) ==
    LET filtered == Filtered(get_recent_deployments(20), env_filter, status_filter) IN
    \E i \in 1..Len(filtered) :
        LET deployment == filtered[i]
            result == approve_deployment(deployment.pipeline_id)
        IN  /\ ApprovalShown(deployment)
            /\ lastCall' = ApproveCall(deployment.pipeline_id, result,
                                IF result.success THEN "Deployment approved" ELSE "")
            /\ streak' = NextStreak(deployment.pipeline_id, result)
            /\ UNCHANGED <<cacheVars, viewVars, opsVars, provider, api_token, reject_reason, show_reject,
                           triggerCount, returnedIds>>

CicdReject(env_filter, status_filter) ==
    LET filtered == Filtered(get_recent_deployments(20), env_filter, status_filter) IN
    \E i \in 1..Len(filtered) :
        LET deployment == filtered[i] IN
        /\ ApprovalShown(deployment)
        /\ reject_reason' = reject_reason \cup {deployment.pipeline_id}
        /\ lastCall' = Told("")
        /\ UNCHANGED <<cacheVars, viewVars, opsVars, provider, api_token, show_reject, streak,
                       triggerCount, returnedIds>>

CicdConfirmRejection(env_filter, status_filter, reason) ==
    LET filtered == Filtered(get_recent_deployments(20), env_filter, status_filter) IN
    \E i \in 1..Len(filtered) :
        LET deployment == filtered[i]
            result == reject_deployment(deployment.pipeline_id, reason)
        IN  /\ ApprovalShown(deployment)
            /\ deployment.pipeline_id \in reject_reason
            /\ lastCall' = RejectCall(deployment.pipeline_id, reason, result,
                                IF result.success THEN "Deployment rejected" ELSE "")
            /\ streak' = 0
            /\ UNCHANGED <<cacheVars, viewVars, opsVars, provider, api_token, reject_reason, show_reject,
                           triggerCount, returnedIds>>

----------------------------------------------------------------------------
(* Pending Approvals view *)

Pending(all_deployments) ==
    LET IsPending(d) == d.status = "pending_approval"
    IN  SelectSeq(all_deployments, IsPending)

\* The list of one commit's deployments left in the order of the registry.
sorted_unsorted(ds) == ds

\* sorted(ds, key=lambda x: x.triggered_at): ascending, and stable, so
\* records with equal keys keep their order in ds.
sorted(ds) ==
    LET rank(i) ==
            Cardinality({j \in 1..Len(ds) :
                \/ ds[j].triggered_at < ds[i].triggered_at
                \/ ds[j].triggered_at = ds[i].triggered_at /\ j < i}) + 1
    IN  [p \in 1..Len(ds) |-> ds[CHOOSE i \in 1..Len(ds) : rank(i) = p]]

\* The records of all_deployments with the commit of the given deployment.
commit_deployments(all_deployments, deployment) ==
    LET SameCommit(d) == d.commit_hash = deployment.commit_hash
    IN  SelectSeq(all_deployments, SameCommit)

\* What the history column writes for one visited record (None = nothing).
HistoryLine(env_deploy) ==
    IF env_deploy.environment = "dev" THEN Some("DEV: Deployed")
    ELSE IF env_deploy.environment = "staging" THEN Some("STAGING: Deployed")
    ELSE IF env_deploy.environment = "production"
    THEN IF env_deploy.status = "pending_approval" THEN Some("PROD: Pending") ELSE None
    ELSE None

\* The "Deployment History" column of one pending deployment: the records
\* the loop visits, in the order it visits them, each with what it writes.
DeploymentHistory(all_deployments, deployment) ==
    LET visited == sorted(commit_deployments(all_deployments, deployment))
    IN  [k \in 1..Len(visited) |->
            [record |-> visited[k], line |-> HistoryLine(visited[k])]]

PendingApprove ==
    LET pending == Pending(get_recent_deployments(50)) IN
    \E i \in 1..Len(pending) :
        LET deployment == pending[i]
            result == approve_deployment(deployment.pipeline_id)
        IN  /\ lastCall' = ApproveCall(deployment.pipeline_id, result,
                                IF result.success THEN "Deployment approved" ELSE "")
            /\ streak' = NextStreak(deployment.pipeline_id, result)
            /\ UNCHANGED <<cacheVars, viewVars, opsVars, provider, api_token, reject_reason, show_reject,
                           triggerCount, returnedIds>>

PendingReject ==
    LET pending == Pending(get_recent_deployments(50)) IN
    \E i \in 1..Len(pending) :
        /\ show_reject' = show_reject \cup {pending[i].pipeline_id}
        /\ lastCall' = Told("")
        /\ UNCHANGED <<cacheVars, viewVars, opsVars, provider, api_token, reject_reason, streak,
                       triggerCount, returnedIds>>

PendingConfirmRejection(reason) ==
    LET pending == Pending(get_recent_deployments(50)) IN
    \E i \in 1..Len(pending) :
        LET deployment == pending[i]
            result == reject_deployment(deployment.pipeline_id, reason)
        IN  /\ deployment.pipeline_id \in show_reject
            /\ IF strip(reason) # <<>>
               THEN /\ lastCall' = RejectCall(deployment.pipeline_id, reason, result,
                                IF result.success THEN "Deployment rejected" ELSE "")
                    /\ streak' = 0
               ELSE /\ lastCall' = Told("Please provide a reason for rejection")
                    /\ UNCHANGED streak
            /\ UNCHANGED <<cacheVars, viewVars, opsVars, provider, api_token, reject_reason, show_reject,
                           triggerCount, returnedIds>>

PendingCancel ==
    LET pending == Pending(get_recent_deployments(50)) IN
    \E i \in 1..Len(pending) :
        /\ pending[i].pipeline_id \in show_reject
        /\ show_reject' = show_reject \ {pending[i].pipeline_id}
        /\ lastCall' = Told("")
        /\ UNCHANGED <<cacheVars, viewVars, opsVars, provider, api_token, reject_reason, streak,
                       triggerCount, returnedIds>>

----------------------------------------------------------------------------
(* Trigger Pipeline view: the form's submit handler *)

TriggerSubmit(repository, branch, environment, require_approval, parameters) ==
    IF repository = <<>> \/ branch = "" \/ environment = ""
    THEN /\ lastCall' = Told("Repository, branch, and environment are required")
         /\ UNCHANGED <<cacheVars, viewVars, opsVars, provider, api_token, reject_reason, show_reject,
                        streak, triggerCount, returnedIds>>
    ELSE IF strip(parameters) # <<>> /\ json_loads(parameters) = "JSONDecodeError"
    THEN /\ lastCall' = [Told("Invalid JSON in parameters")
                           EXCEPT !.parameters = json_loads(parameters)]
         /\ UNCHANGED <<cacheVars, viewVars, opsVars, provider, api_token, reject_reason, show_reject,
                        streak, triggerCount, returnedIds>>
    ELSE LET params == IF strip(parameters) # <<>> THEN json_loads(parameters) ELSE "None"
             result == trigger_pipeline(repository, branch, environment, params)
         IN  /\ triggerCount < MaxTriggers
             /\ triggerCount' = triggerCount + 1
             /\ lastCall' = TriggerCall(environment, require_approval, params, result,
                                IF result.success THEN "Pipeline triggered successfully"
                                ELSE "Failed to trigger pipeline")
             /\ streak' = 0
             /\ returnedIds' = IF result.success
                               THEN returnedIds \cup {result.pipeline_id}
                               ELSE returnedIds
             /\ UNCHANGED <<cacheVars, viewVars, opsVars, provider, api_token, reject_reason, show_reject>>

----------------------------------------------------------------------------

Next ==
    \/ \E p \in PipelineIdInputs : ApproveDeployment(p)
    \/ \E p \in PipelineIdInputs, r \in ReasonTexts : RejectDeployment(p, r)
    \/ \E ef \in EnvFilters, sf \in StatusFilters : CicdApprove(ef, sf)
    \/ \E ef \in EnvFilters, sf \in StatusFilters : CicdReject(ef, sf)
    \/ \E ef \in EnvFilters, sf \in StatusFilters, r \in ReasonTexts :
          CicdConfirmRejection(ef, sf, r)
    \/ PendingApprove
    \/ PendingReject
    \/ \E r \in ReasonTexts : PendingConfirmRejection(r)
    \/ PendingCancel
    \/ \E repo \in Repositories, b \in Branches, e \in Environments,
          ra \in BOOLEAN, ps \in ParamTexts : TriggerSubmit(repo, b, e, ra, ps)

Spec == Init /\ [][Next]_vars

----------------------------------------------------------------------------
(* Result cache steps of a session s *)

LoadOnce(s, key, func, outcome) ==
    LET r == load_once(key, func, session_state[s], cache_data, clock, s, outcome)
    IN  /\ (r.ran /\ ~r.raised) => runs < MaxRuns
        /\ runs' = IF r.ran /\ ~r.raised THEN runs + 1 ELSE runs
        /\ session_state' = [session_state EXCEPT ![s] = r.state]
        /\ cache_data' = r.cache
        /\ lastRead' = [NoRead EXCEPT !.op = "load_once", !.session = s, !.key = key,
                                      !.func = func, !.called = r.called,
                                      !.ran = r.ran, !.raised = r.raised,
                                      !.result = r.result]
        /\ refreshed' = IF r.raised THEN refreshed
                        ELSE [refreshed EXCEPT ![s].keys = @ \ {key}]
        /\ UNCHANGED <<clock, cicdVars, opsVars, viewVars>>

RefreshData(s, cache_keys) ==
    LET r == add_refresh_button(cache_keys, session_state[s], cache_data) IN
    /\ session_state' = [session_state EXCEPT ![s] = r.state]
    /\ cache_data' = r.cache
    /\ lastRead' = [NoRead EXCEPT !.op = "refresh", !.session = s,
                                  !.cache_keys = cache_keys,
                                  !.raised = r.raised]
    /\ refreshed' = [refreshed EXCEPT ![s] =
                        IF cache_keys # {}
                        THEN [kind |-> "listed", keys |-> cache_keys]
                        ELSE [kind |-> "all",
                              keys |-> {key \in LoadOnceKeys :
                                           In(key, session_state[s])}]]
    /\ UNCHANGED <<clock, runs, cicdVars, opsVars, viewVars>>

Tick ==
    /\ clock + ttl \div 2 <= MaxClock
    /\ clock' = clock + ttl \div 2
    /\ lastRead' = NoRead
    /\ UNCHANGED <<session_state, cache_data, runs, refreshed, cicdVars, opsVars, viewVars>>

\* The reads and refreshes of the sessions: session A makes every read and
\* refresh, session B the analytics read and refresh of ResourceInventoryModule.
Reads(s) ==
    IF s = "A" THEN LoadOnceKeys \X Functions
    ELSE {<<<<"resource_", "analytics">>, "generate_resource_analytics">>}

RefreshLists(s) ==
    IF s = "A" THEN SUBSET LoadOnceKeys ELSE {{<<"resource_", "analytics">>}}

NextCache ==
    \/ \E s \in Sessions : \E read \in Reads(s), outcome \in Outcomes :
          LoadOnce(s, read[1], read[2], outcome)
    \/ \E s \in Sessions : \E cache_keys \in RefreshLists(s) : RefreshData(s, cache_keys)
    \/ Tick

InitCache == Init /\ provider = "github" /\ api_token = None

SpecCache == InitCache /\ [][NextCache]_vars

----------------------------------------------------------------------------
(* Steps of the application: the sidebar's region selection, a navigation  *)
(* button, and a run of main() with the active module                      *)

SelectRegion(region) ==
    /\ selected_regions' = Some(region)
    /\ UNCHANGED <<active_module, lastRun, cicdVars, opsVars, cacheVars>>

NavButton(module) ==
    /\ active_module' = module
    /\ UNCHANGED <<selected_regions, lastRun, cicdVars, opsVars, cacheVars>>

Run(imported, account_mgr, account_names, resolution) ==
    /\ active_module # "Resource Inventory"
    /\ (active_module = "Operations") => imported
    /\ lastRun' = main(active_module, imported, account_mgr, account_names,
                       selected_regions, resolution)
    /\ UNCHANGED <<selected_regions, active_module, cicdVars, opsVars, cacheVars>>

\* A run of main() with Resource Inventory as the active module
RunResourceInventory(imported, account_mgr, outcome) ==
    LET s == "A"
        key == <<"resource_", "analytics">>
        r == IF imported
             THEN ResourceInventoryModule_render(account_mgr, session_state[s],
                                                 cache_data, clock, s, outcome)
             ELSE [errors |-> {}, warnings |-> {}, tabs |-> FALSE, calls |-> {},
                   called |-> FALSE, ran |-> FALSE, raised |-> TRUE,
                   result |-> NoValue, state |-> session_state[s],
                   cache |-> cache_data]
        shown == except_Exception(active_module, r)
    IN  /\ active_module = "Resource Inventory"
        /\ (r.ran /\ ~r.raised) => runs < MaxRuns
        /\ runs' = IF r.ran /\ ~r.raised THEN runs + 1 ELSE runs
        /\ session_state' = [session_state EXCEPT ![s] = r.state]
        /\ cache_data' = r.cache
        /\ lastRead' = IF imported /\ account_mgr
                       THEN [NoRead EXCEPT !.op = "load_once", !.session = s,
                                           !.key = key,
                                           !.func = "generate_resource_analytics",
                                           !.called = r.called, !.ran = r.ran,
                                           !.raised = r.raised, !.result = r.result]
                       ELSE NoRead
        /\ refreshed' = IF imported /\ account_mgr /\ ~r.raised
                        THEN [refreshed EXCEPT ![s].keys = @ \ {key}]
                        ELSE refreshed
        /\ lastRun' = [NoRun EXCEPT !.module = active_module,
                                    !.selected = selected_regions,
                                    !.account_mgr = account_mgr,
                                    !.imported = imported,
                                    !.module_raised = r.raised,
                                    !.errors = shown.errors,
                                    !.warnings = shown.warnings,
                                    !.tabs = shown.tabs,
                                    !.uncaught = shown.raised,
                                    !.footer = ~shown.raised]
        /\ UNCHANGED <<selected_regions, active_module, clock, cicdVars, opsVars>>

NextViews ==
    \/ \E region \in Regions : SelectRegion(region)
    \/ \E module \in Modules : NavButton(module)
    \/ \E imported \in BOOLEAN, account_mgr \in BOOLEAN,
          account_names \in AccountNames, resolution \in Resolutions :
          Run(imported, account_mgr, account_names, resolution)
    \/ \E imported \in BOOLEAN, account_mgr \in BOOLEAN, outcome \in Outcomes :
          RunResourceInventory(imported, account_mgr, outcome)
    \/ RefreshData("A", {<<"resource_", "analytics">>})

InitViews == Init /\ provider = "github" /\ api_token = None

SpecViews == InitViews /\ [][NextViews]_vars

----------------------------------------------------------------------------
(* The views' calls into the account manager *)

\* account_mgr.get_session_with_region(selected_account, selected_region),
\* as OperationsModule.render and ProvisioningModuleEnhanced.render call it.
GetSessionWithRegion(account, region, outcome) ==
    LET r == get_session_with_region(account, region, session_cache,
                                     handles_built, outcome) IN
    /\ r.built <= MaxHandles
    /\ session_cache' = r.cache
    /\ handles_built' = r.built
    /\ issued' = IF r.raised THEN issued
                 ELSE [issued EXCEPT ![<<account, region>>] =
                          [handle |-> r.handle, invalidated |-> FALSE]]
    /\ lastResolve' = [op |-> "get_session_with_region", account |-> account,
                       region |-> Some(region), raised |-> r.raised,
                       handle |-> r.handle,
                       was_invalidated |-> issued[<<account, region>>].invalidated]
    /\ UNCHANGED <<cicdVars, cacheVars, viewVars, bulkVars, lastNav>>

\* Credentials rotated or an explicit reconnect: invalidate(account, region).
Invalidate(account, region) ==
    /\ session_cache' = invalidate(account, region, session_cache)
    /\ issued' = [key \in SessionCacheKeys |->
                    IF key[1] = account /\ (region = None \/ key[2] = region[1])
                    THEN [issued[key] EXCEPT !.invalidated = TRUE]
                    ELSE issued[key]]
    /\ lastResolve' = [op |-> "invalidate", account |-> account, region |-> region,
                       raised |-> FALSE, handle |-> None, was_invalidated |-> FALSE]
    /\ UNCHANGED <<handles_built, cicdVars, cacheVars, viewVars, bulkVars, lastNav>>

NextSessions ==
    \/ \E account \in Accounts, region \in ConcreteRegions, outcome \in BuildOutcomes :
          GetSessionWithRegion(account, region, outcome)
    \/ \E account \in Accounts,
          region \in {None} \cup {Some(r) : r \in ConcreteRegions} :
          Invalidate(account, region)

InitSessions == Init /\ provider = "github" /\ api_token = None

SpecSessions == InitSessions /\ [][NextSessions]_vars

----------------------------------------------------------------------------
(* Runs of the Instance Management tab *)

\* One user interaction and the script run it causes; a run that ended in
\* st.rerun() is followed at once by a run in which nothing was clicked.
InstanceManagementRun(op, safety, selected_state, clicked, ec2) ==
    LET first == _render_instance_management(confirm_bulk_operation, op, safety,
                                             selected_state, instances, clicked, ec2)
        last == IF first.rerun
                THEN _render_instance_management(first.flag, op, safety,
                                                 selected_state, instances, "none", ec2)
                ELSE first IN
    /\ operation' = op
    /\ safety_mode' = safety
    /\ state_filter' = selected_state
    /\ confirm_bulk_operation' = last.flag
    /\ offered' = last.offered
    /\ confirmed' =
          IF first.pressed = "Confirm & Execute"
          THEN Some([operation |-> op,
                     instances |-> filtered_instances(instances, selected_state)])
          ELSE IF first.pressed \in {"Yes", "No"} THEN None
          ELSE confirmed
    /\ lastBulk' = [clicked |-> clicked, pressed |-> first.pressed,
                    safety_mode |-> safety, flag_before |-> confirm_bulk_operation,
                    executed |-> first.executed, cancelled |-> first.cancelled,
                    confirmed |-> confirmed, error |-> first.error]
    /\ UNCHANGED <<instances, cicdVars, cacheVars, viewVars, sessionVars, lastNav>>

PressButton(button, ec2) ==
    /\ button \in offered
    /\ InstanceManagementRun(operation, safety_mode, state_filter, button, ec2)

SelectOperation(op, ec2) ==
    /\ op # operation
    /\ InstanceManagementRun(op, safety_mode, state_filter, "none", ec2)

SelectStateFilter(selected_state, ec2) ==
    /\ selected_state # state_filter
    /\ InstanceManagementRun(operation, safety_mode, selected_state, "none", ec2)

ToggleSafetyMode(ec2) ==
    /\ ec2 \in Ec2Responses
    /\ InstanceManagementRun(operation, ~safety_mode, state_filter, "none", ec2)

\* An instance is started or stopped outside the application.
InstanceStateChange(i) ==
    /\ instances' = [instances EXCEPT
                        ![i] = IF instances[i] = "running" THEN "stopped" ELSE "running"]
    /\ UNCHANGED <<confirm_bulk_operation, operation, safety_mode, state_filter,
                   offered, confirmed, lastBulk,
                   cicdVars, cacheVars, viewVars, sessionVars, lastNav>>

NextBulk ==
    \/ \E button \in Buttons, ec2 \in Ec2Responses : PressButton(button, ec2)
    \/ \E op \in BulkOperations, ec2 \in Ec2Responses : SelectOperation(op, ec2)
    \/ \E selected_state \in StateFilters, ec2 \in Ec2Responses :
          SelectStateFilter(selected_state, ec2)
    \/ \E ec2 \in Ec2Responses : ToggleSafetyMode(ec2)
    \/ \E i \in InstanceIds : InstanceStateChange(i)

InitBulk == Init /\ provider = "github" /\ api_token = None

SpecBulk == InitBulk /\ [][NextBulk]_vars

----------------------------------------------------------------------------
(* Navigation steps *)

\* A run of Navigation.render in which no navigation button is pressed.
NavRun(imported) ==
    /\ lastNav' = [pressed |-> None, before |-> active_module,
                   runs |-> <<dispatch_run(active_module, imported)>>]
    /\ UNCHANGED <<selected_regions, active_module, lastRun,
                   cicdVars, cacheVars, sessionVars, bulkVars>>

\* A run in which the button of nav_items[i] is pressed: the button assigns
\* active_module and calls st.rerun(), and the run that follows dispatches.
NavPress(i, imported) ==
    LET active == nav_button(nav_items[i]) IN
    /\ active_module' = active
    /\ lastNav' = [pressed |-> Some(nav_items[i].key), before |-> active_module,
                   runs |-> <<rerun_before_dispatch(active),
                              dispatch_run(active, imported)>>]
    /\ UNCHANGED <<selected_regions, lastRun,
                   cicdVars, cacheVars, sessionVars, bulkVars>>

NextNav ==
    \/ \E imported \in BOOLEAN : NavRun(imported)
    \/ \E i \in 1..Len(nav_items), imported \in BOOLEAN : NavPress(i, imported)

InitNav == Init /\ provider = "github" /\ api_token = None

SpecNav == InitNav /\ [][NextNav]_vars

----------------------------------------------------------------------------
(* Reading the registry *)

Registry == get_recent_deployments(10)

RecordsOf(pipeline_id) ==
    LET deployments == Registry IN
    {deployments[i] : i \in {j \in 1..Len(deployments) :
                                deployments[j].pipeline_id = pipeline_id}}

InRegistry(pipeline_id) == RecordsOf(pipeline_id) # {}

HasStatus(pipeline_id, status) ==
    LET records == RecordsOf(pipeline_id) IN
    records # {} /\ \A r \in records : r.status = status

HasStatusIn(pipeline_id, statuses) ==
    \E st \in statuses : HasStatus(pipeline_id, st)

ListedStatuses ==
    LET deployments == Registry IN
    {<<deployments[i].pipeline_id, deployments[i].status>> : i \in 1..Len(deployments)}

\* What the registry lists of each record's state.
ListedRecords ==
    {[pipeline_id |-> Registry[i].pipeline_id, status |-> Registry[i].status,
      approval_required |-> Registry[i].approval_required,
      completed_at |-> Registry[i].completed_at] : i \in 1..Len(Registry)}

RegistryIds ==
    {_get_demo_deployments[i].pipeline_id : i \in 1..Len(_get_demo_deployments)}

----------------------------------------------------------------------------
(* Claims *)

\* C1: for every deployment of the registry, approve_deployment succeeds if
\* and only if the deployment's status is pending_approval at the call, and
\* after a successful approve the registry lists it as running.
C1_ApproveIffPending ==
    [][ \A p \in RegistryIds :
          (lastCall'.op = "approve" /\ lastCall'.pipeline_id = p) =>
            /\ lastCall'.success <=> HasStatus(p, "pending_approval")
            /\ lastCall'.success => HasStatus(p, "running")' ]_vars

\* C2: for every deployment of the registry, reject_deployment succeeds if and
\* only if the deployment is pending_approval and the reason is non-empty, and
\* after a successful reject the registry lists it as failed.
C2_RejectIffPendingWithReason ==
    [][ \A p \in RegistryIds :
          (lastCall'.op = "reject" /\ lastCall'.pipeline_id = p) =>
            /\ lastCall'.success <=>
                   (HasStatus(p, "pending_approval") /\ lastCall'.reason # <<>>)
            /\ lastCall'.success => HasStatus(p, "failed")' ]_vars

\* C3: approve or reject of a deployment whose status is running, success or
\* failed does not succeed (it is an invalid state transition) and leaves the
\* deployment's record unchanged.
C3_NonPendingRefused ==
    [][ \A p \in RegistryIds :
          ( /\ lastCall'.op \in {"approve", "reject"}
            /\ lastCall'.pipeline_id = p
            /\ HasStatusIn(p, {"running", "success", "failed"}) ) =>
            /\ ~lastCall'.success
            /\ RecordsOf(p)' = RecordsOf(p) ]_vars

\* C4: of two approvals of the same pipeline id in a row, the first succeeds
\* and the second fails: an approve of a deployment still in pending_approval
\* succeeds, and no two approvals of one id in a row both succeed.
C4_DoubleApproveRefused ==
    /\ \A p \in RegistryIds :
          ( /\ lastCall.op = "approve"
            /\ lastCall.pipeline_id = p
            /\ HasStatus(p, "pending_approval") ) => lastCall.success
    /\ streak <= 1

\* C5: approve or reject of a pipeline id that no record of the registry has
\* never returns success (it fails as not found).
C5_UnknownIdRefused ==
    (lastCall.op \in {"approve", "reject"} /\ ~InRegistry(lastCall.pipeline_id))
      => ~lastCall.success

\* C6: a successful trigger creates a record that the registry lists under
\* the returned pipeline id, in pending_approval when the trigger was made
\* with approval required and in running otherwise.
C6_TriggerCreatesRecord ==
    (lastCall.op = "trigger" /\ lastCall.success) =>
      HasStatus(lastCall.result_id,
                IF lastCall.require_approval THEN "pending_approval" ELSE "running")

\* C7: end to end: a production deployment triggered with approval required
\* is listed in pending_approval; after approve of its pipeline id it is
\* listed as running; and every record in status success is included in the
\* listing filtered on status success.
C7_EndToEnd ==
    /\ ( /\ lastCall.op = "trigger"
         /\ lastCall.success
         /\ lastCall.environment = "production"
         /\ lastCall.require_approval ) =>
           HasStatus(lastCall.result_id, "pending_approval")
    /\ ( /\ lastCall.op = "approve"
         /\ lastCall.success
         /\ lastCall.pipeline_id \in returnedIds ) =>
           HasStatus(lastCall.pipeline_id, "running")
    /\ \A i \in 1..Len(Registry) :
         Registry[i].status = "success" =>
           \E k \in 1..Len(Filtered(Registry, Environments, {"success"})) :
             Filtered(Registry, Environments, {"success"})[k] = Registry[i]

\* C8: pipeline ids are unique: the trigger calls made so far have returned
\* pairwise different pipeline ids, and no two records of the registry share
\* a pipeline id.
C8_PipelineIdsUnique ==
    /\ Cardinality(returnedIds) = triggerCount
    /\ \A i, j \in 1..Len(Registry) :
          Registry[i].pipeline_id = Registry[j].pipeline_id => i = j

\* C9: success and failed are terminal: once the registry lists a deployment
\* as success or failed, no approve, reject or trigger step changes the status
\* it is listed with.
C9_TerminalIsFinal ==
    [][ {listed \in ListedStatuses : listed[2] \in {"success", "failed"}}
             \subseteq ListedStatuses' ]_vars

\* C9 witness: approve has just returned success for a deployment listed as
\* success, after a pipeline was triggered.
C9_Witness ==
    /\ lastCall.op = "approve"
    /\ lastCall.success
    /\ triggerCount >= 1
    /\ HasStatus(lastCall.pipeline_id, "success")

\* C10: when the submitted pipeline parameters are not a well-formed
\* key/value structure (text that does not parse, or a parsed value that is no
\* mapping), the submit is refused with the invalid-parameters message and
\* trigger_pipeline is not called.
C10_MalformedParametersRefused ==
    lastCall.parameters \in {"list", "scalar", "JSONDecodeError"} =>
      /\ lastCall.op = "none"
      /\ lastCall.message = "Invalid JSON in parameters"


\* C11: the listing returned by get_recent_deployments, and the listing the
\* CI/CD Deployments view displays from it under the default sort, is ordered
\* by triggered_at descending, and of two records with equal triggered_at the
\* one with the lexicographically smaller pipeline_id comes first.
C11_RecentFirstOrder ==
    LET lexicographic == <<"GHA-1230", "GHA-1231", "GHA-1232", "GHA-1233",
                           "GHA-1234", "GHA-1235", "GHA-9999">>
        Smaller(a, b) ==
            \E m, n \in 1..Len(lexicographic) :
                m < n /\ lexicographic[m] = a /\ lexicographic[n] = b
        Ordered(list) ==
            \A i, j \in 1..Len(list) :
                i < j =>
                    \/ list[i].triggered_at > list[j].triggered_at
                    \/ /\ list[i].triggered_at = list[j].triggered_at
                       /\ Smaller(list[i].pipeline_id, list[j].pipeline_id)
    IN  /\ Ordered(Registry)
        /\ \A env_filter \in EnvFilters, status_filter \in StatusFilters :
              Ordered(Filtered(Registry, env_filter, status_filter))

\* C12: of two load_once calls for one key in one session with no refresh
\* between them, the first stores the value its loader returned and the second
\* does not call the loader: a load_once for a key the session has stored
\* returns the stored value, leaves it stored, and calls no loader.
C12_LoadOnceReusesEntry ==
    [][ \A s \in Sessions, key \in LoadOnceKeys :
          (lastRead'.op = "load_once" /\ lastRead'.session = s /\ lastRead'.key = key) =>
            IF In(key, session_state[s])
            THEN /\ ~lastRead'.called
                 /\ lastRead'.result = session_state[s][key][1]
                 /\ session_state'[s][key] = session_state[s][key]
            ELSE ~lastRead'.raised => session_state'[s][key] = Some(lastRead'.result) ]_vars

\* C12 witness: a load_once was served from the session's entry without a
\* loader call, after time had passed and within the freshness window.
C12_Witness ==
    /\ lastRead.op = "load_once"
    /\ ~lastRead.called
    /\ clock > lastRead.result.at
    /\ clock - lastRead.result.at < ttl

\* C13: a load_once read made when ttl seconds or more have passed since the
\* value was produced runs the underlying loader again and replaces the stored
\* value: no load_once returns a value produced ttl seconds ago or earlier.
C13_ReloadAfterTtl ==
    (lastRead.op = "load_once" /\ ~lastRead.raised) =>
        clock - lastRead.result.at < ttl

\* C14: a refresh with a non-empty key list completes without error and
\* leaves every session key outside the list as it was; and the next
\* load_once for a listed key calls its loader and stores what it returned.
C14_ListedRefresh ==
    [][ \A s \in Sessions :
          /\ ( /\ lastRead'.op = "refresh"
               /\ lastRead'.session = s
               /\ lastRead'.cache_keys # {} ) =>
                 /\ ~lastRead'.raised
                 /\ \A key \in SessionKeys \ lastRead'.cache_keys :
                        session_state'[s][key] = session_state[s][key]
          /\ \A key \in LoadOnceKeys :
               ( /\ refreshed[s].kind = "listed"
                 /\ key \in refreshed[s].keys
                 /\ lastRead'.op = "load_once"
                 /\ lastRead'.session = s
                 /\ lastRead'.key = key ) =>
                   /\ lastRead'.called
                   /\ ~lastRead'.raised =>
                          session_state'[s][key] = Some(lastRead'.result) ]_vars

\* C14 witness: session A has reloaded a listed key after a listed refresh,
\* while another listed key was never stored and an unlisted key is stored.
C14_Witness ==
    /\ refreshed["A"].kind = "listed"
    /\ lastRead.op = "load_once"
    /\ lastRead.session = "A"
    /\ lastRead.called
    /\ ~lastRead.raised
    /\ lastRead.key = <<"resource_", "analytics">>
    /\ lastRead.key \notin refreshed["A"].keys
    /\ In(<<"", "summary">>, session_state["A"])
    /\ runs >= 2

\* C15: after a refresh with no key list, every entry load_once had stored in
\* the session is cleared, whatever its key.
C15_FullRefreshClearsAll ==
    \A s \in Sessions :
        refreshed[s].kind = "all" =>
            \A key \in refreshed[s].keys : ~In(key, session_state[s])

\* C16: when the loader of a load_once raises, nothing is stored: the session
\* state (the key, the spinner flag) and the st.cache_data store are as they
\* were, the key is absent, and a next load_once for the key calls its loader.
C16_FailedLoadStoresNothing ==
    [][ \A s \in Sessions, key \in LoadOnceKeys :
          (lastRead'.raised /\ lastRead'.session = s /\ lastRead'.key = key) =>
            /\ session_state' = session_state
            /\ cache_data' = cache_data
            /\ ~In(key, session_state'[s])
            /\ \A func \in Functions, outcome \in Outcomes :
                 load_once(key, func, session_state'[s], cache_data', clock', s,
                           outcome).called ]_vars

\* C16 witness: a loader has just raised in a session whose spinner flag for
\* it was not set.
C16_Witness ==
    /\ lastRead.raised
    /\ lastRead.ran
    /\ ~In(cache_key(lastRead.func), session_state[lastRead.session])

\* C17: a value produced by a loader run for one session is never served to
\* another session.
C17_NoCrossSessionServing ==
    (lastRead.op = "load_once" /\ ~lastRead.raised) =>
        lastRead.result.session = lastRead.session

\* C18: a key identifies one loader: a load_once made for one loader never
\* returns a value produced by another loader.
C18_KeyIdentifiesLoader ==
    (lastRead.op = "load_once" /\ ~lastRead.raised) =>
        lastRead.result.func = lastRead.func

\* C19: whenever the selected region is the sentinel 'all', or no region was
\* ever selected, a run of the Operations or Provisioning view creates no tabs
\* and makes no get_session_with_region call, and once an account is selected
\* it shows the view's region error; and no run passes
\* get_session_with_region a region other than the one selected.
C19_AllRegionRefused ==
    /\ ( /\ lastRun.module \in {"Operations", "Provisioning"}
         /\ lastRun.selected \in {None, Some("all")} ) =>
           /\ lastRun.calls = {}
           /\ ~lastRun.tabs
           /\ ( /\ lastRun.imported
                /\ lastRun.account_mgr
                /\ lastRun.account_names # <<>> ) =>
                  lastRun.errors =
                     {IF lastRun.module = "Operations"
                      THEN "Operations require a specific region"
                      ELSE "Error loading Provisioning: You must specify a region."}
    /\ \A call \in lastRun.calls :
           lastRun.selected = Some(call[2]) /\ call[2] # "all"

\* C19 witness: the Provisioning view has shown its region error in a session
\* where no region was ever selected.
C19_Witness ==
    /\ lastRun.module = "Provisioning"
    /\ lastRun.selected = None
    /\ lastRun.imported
    /\ lastRun.errors # {}

\* C20: when get_session_with_region fails for the selected account and
\* region (it returns no session, or raises), the run of the Operations or
\* Provisioning view shows an error message and creates no tabs, no exception
\* leaves Navigation.render, and the footer is rendered.
C20_ResolutionFailureSurfaced ==
    ( /\ lastRun.module \in {"Operations", "Provisioning"}
      /\ lastRun.resolution \in {"None", "raise"} ) =>
        /\ lastRun.errors # {}
        /\ ~lastRun.tabs
        /\ ~lastRun.uncaught
        /\ lastRun.footer

\* C20 witness: get_session_with_region has raised in a run of the Operations
\* view for a selected region.
C20_Witness ==
    /\ lastRun.module = "Operations"
    /\ lastRun.resolution = "raise"
    /\ lastRun.calls # {}

----------------------------------------------------------------------------
(* Claims on the data source, the history, and the rejection reason *)

\* The "Showing demo data" notice of the CI/CD Deployments view
DemoNoticeShown == api_token = None

\* C21: with no provider token get_recent_deployments returns the fixed
\* illustrative record set, and whenever that set is what it returns the view
\* says so with its demo-data notice.
C21_DemoDataLabelled ==
    /\ api_token = None => get_recent_deployments(20) = _get_demo_deployments
    /\ get_recent_deployments(20) = _get_demo_deployments => DemoNoticeShown

\* A run of main(), whichever module is active
MainRun ==
    \/ \E imported \in BOOLEAN, account_mgr \in BOOLEAN,
          account_names \in AccountNames, resolution \in Resolutions :
          Run(imported, account_mgr, account_names, resolution)
    \/ \E imported \in BOOLEAN, account_mgr \in BOOLEAN, outcome \in Outcomes :
          RunResourceInventory(imported, account_mgr, outcome)

\* C22: when the render of the active module raises, Navigation.render shows
\* an "Error loading" message for that module, no exception leaves it, the
\* footer is rendered, and the session's entries under other keys (the
\* selected region, the active module, the entries of the result cache other
\* than the one the module was loading, the other session's entries) are as
\* they were.
C22_ModuleFailureConfined ==
    [][ (MainRun /\ lastRun'.module_raised) =>
          /\ ("Error loading " \o lastRun'.module) \in lastRun'.errors
          /\ ~lastRun'.uncaught
          /\ lastRun'.footer
          /\ selected_regions' = selected_regions
          /\ active_module' = active_module
          /\ session_state'["B"] = session_state["B"]
          /\ \A key \in SessionKeys \ {<<"resource_", "analytics">>} :
                 session_state'["A"][key] = session_state["A"][key] ]_vars

\* C22 witness: the loader of the Resource Inventory module has raised in a
\* session that holds an entry stored by an earlier run, with a region
\* selected.
C22_Witness ==
    /\ lastRun.module = "Resource Inventory"
    /\ lastRun.imported
    /\ lastRun.module_raised
    /\ lastRun.errors # {}
    /\ selected_regions # None
    /\ In(cache_key("generate_resource_analytics"), session_state["A"])

----------------------------------------------------------------------------
(* Claims on session handles, the deployment history and bulk operations *)

C24_HistoryOfCommit ==
    LET all_deployments == get_recent_deployments(50)
        pending == Pending(all_deployments)
    IN  \A i \in 1..Len(pending) :
           LET history == DeploymentHistory(all_deployments, pending[i])
               same == {j \in 1..Len(all_deployments) :
                          all_deployments[j].commit_hash = pending[i].commit_hash}
           IN  /\ {history[k].record : k \in 1..Len(history)}
                     = {all_deployments[j] : j \in same}
               /\ Len(history) = Cardinality(same)
               /\ \A k \in 1..(Len(history) - 1) :
                     history[k].record.triggered_at
                        <= history[k + 1].record.triggered_at
               /\ \A k \in 1..Len(history) : history[k].line # None

\* The Pending Approvals view was drawn and used, and a pending deployment
\* has a history of three records whose registry order is not ascending.
C24_Witness ==
    /\ show_reject # {}
    /\ LET all_deployments == get_recent_deployments(50)
           pending == Pending(all_deployments)
       IN  \E i \in 1..Len(pending) :
              /\ pending[i].pipeline_id \in show_reject
              /\ Len(DeploymentHistory(all_deployments, pending[i])) = 3
              /\ LET cs == commit_deployments(all_deployments, pending[i])
                 IN  cs[1].triggered_at > cs[2].triggered_at

\* C25: no step of the CI/CD Deployments view or of the Pending Approvals
\* view calls reject_deployment with a reason that is empty or only
\* whitespace, and none reports a rejection for such a reason.
C25_NoBlankRejection ==
    (lastCall.op = "reject" /\ lastCall.message # "")
        => strip(lastCall.reason) # <<>>

C27_ConfirmationGate ==
    [][ /\ (lastBulk'.safety_mode /\ lastBulk'.executed # None)
              => lastBulk'.pressed = "Yes"
        /\ (offered' \cap {"Yes", "No"} # {})
              => confirm_bulk_operation' = Some(TRUE)
        /\ ( /\ get_confirm_bulk_operation(confirm_bulk_operation')
             /\ ~get_confirm_bulk_operation(confirm_bulk_operation) )
              => lastBulk'.pressed = "Confirm & Execute"
        /\ (lastBulk'.pressed \in {"Yes", "No"})
              => confirm_bulk_operation' = Some(FALSE) ]_vars

\* C27 witness: "Yes" was pressed with the confirmation required and the
\* flag set, the operation was reported, and the flag is false again.
C27_Witness ==
    /\ lastBulk.safety_mode
    /\ lastBulk.pressed = "Yes"
    /\ lastBulk.flag_before = Some(TRUE)
    /\ lastBulk.executed # None
    /\ confirm_bulk_operation = Some(FALSE)
    /\ offered = {"Confirm & Execute"}

\* C28: with "Require Confirmation" ticked, the operation and the instances
\* that a press of "Yes" executes are the operation and the filtered
\* instances that were on screen when "Confirm & Execute" was pressed.
C28_ExecutesConfirmedSelection ==
    (lastBulk.safety_mode /\ lastBulk.pressed = "Yes" /\ lastBulk.executed # None)
        => /\ lastBulk.confirmed # None
           /\ lastBulk.executed = lastBulk.confirmed

----------------------------------------------------------------------------
(* Claims on sessions sharing the process, and on navigation *)

\* C29: a "Refresh Data" press in session A changes nothing that session B
\* reads: session B's st.session_state is as it was, and so is the stored
\* result of every loader session B calls, so that no loader runs again for
\* session B because of the press.
C29_RefreshSparesOtherSession ==
    [][ (lastRead'.op = "refresh" /\ lastRead'.session = "A")
           => /\ session_state'["B"] = session_state["B"]
              /\ \A read \in Reads("B") :
                    cache_data'[read[2]] = cache_data[read[2]] ]_vars

\* C30: in every run of Navigation.render active_module is one of the
\* sixteen navigation keys; it is 'Dashboard' before any navigation step; a
\* step changes it only to the key of the button pressed in the step; and a
\* run invokes the render of at most one module, the one whose branch
\* compares with the run's active_module.
C30_OneActiveModule ==
    [][ /\ active_module' \in NavKeys
        /\ lastNav = NoNav => active_module = "Dashboard"
        /\ active_module' # active_module
              => lastNav'.pressed = Some(active_module')
        /\ \A k \in 1..Len(lastNav'.runs) :
              LET run == lastNav'.runs[k] IN
              /\ run.active = active_module'
              /\ Cardinality(run.rendered) <= 1
              /\ \A class \in run.rendered :
                    \E i \in 1..Len(branches) :
                       /\ branches[i].class = class
                       /\ branches[i].key = run.active ]_vars

\* C30 witness: with Operations active the AI Assistant button was pressed,
\* and the run after the press invoked AIAssistantModule.render only.
C30_Witness ==
    /\ lastNav.pressed = Some("AI Assistant")
    /\ lastNav.before = "Operations"
    /\ active_module = "AI Assistant"
    /\ Len(lastNav.runs) = 2
    /\ lastNav.runs[1].rendered = {}
    /\ lastNav.runs[2].rendered = {"AIAssistantModule"}

====
